---- MODULE Spec2Model ----
(***************************************************************************)
(* Frequency generator page of Arduino-Simple-DSO                          *)
(* (src/src/PageFrequencyGenerator.cpp), the non-AVR builds: the           *)
(* translation of a target frequency into a timer reload value             *)
(* (setWaveformFrequency), the unit handling (setFrequencyFactor,          *)
(* setFrequency) and the GUI handlers that drive them.                     *)
(*                                                                         *)
(* The C arithmetic is modelled at its width.  TLC's integers end at       *)
(* 2^31 - 1, so the 32 and 64 bit integers of the code (36000000000,       *)
(* uint32_t reload values up to 0xFFFFFFFF) are natural numbers written as *)
(* sequences of base 2^15 limbs, least significant first, and a float is   *)
(* an IEEE single: a sign, a 24 bit mantissa and an exponent, every        *)
(* operation rounded to nearest, ties to even.                             *)
(***************************************************************************)
EXTENDS Integers, Sequences, FiniteSets, TLC

(***************************************************************************)
(* Natural numbers of any width (the uint32_t and long long of the code).  *)
(***************************************************************************)
LimbBase == 2^15

RECURSIVE BigNorm(_)
BigNorm(a) ==
    IF a = <<>> THEN <<>>
    ELSE IF a[Len(a)] = 0 THEN BigNorm(SubSeq(a, 1, Len(a) - 1))
    ELSE a

RECURSIVE BigOf(_)
BigOf(n) ==
    IF n = 0 THEN <<>> ELSE <<n % LimbBase>> \o BigOf(n \div LimbBase)

RECURSIVE BigToInt(_)
BigToInt(a) ==
    IF a = <<>> THEN 0 ELSE a[1] + LimbBase * BigToInt(Tail(a))

BigLimb(a, i) == IF i <= Len(a) THEN a[i] ELSE 0

RECURSIVE BigAddC(_, _, _)
BigAddC(a, b, c) ==
    IF a = <<>> /\ b = <<>>
    THEN (IF c = 0 THEN <<>> ELSE <<c>>)
    ELSE LET s == BigLimb(a, 1) + BigLimb(b, 1) + c
         IN  <<s % LimbBase>>
             \o BigAddC(IF a = <<>> THEN <<>> ELSE Tail(a),
                        IF b = <<>> THEN <<>> ELSE Tail(b),
                        s \div LimbBase)

BigAdd(a, b) == BigAddC(a, b, 0)

RECURSIVE BigSubB(_, _, _)
BigSubB(a, b, c) ==
    IF a = <<>> THEN <<>>
    ELSE LET d == a[1] - BigLimb(b, 1) - c
         IN  <<d % LimbBase>>
             \o BigSubB(Tail(a), IF b = <<>> THEN <<>> ELSE Tail(b),
                        IF d < 0 THEN 1 ELSE 0)

\* a - b for a >= b
BigSub(a, b) == BigNorm(BigSubB(a, b, 0))

RECURSIVE BigLessFrom(_, _, _)
BigLessFrom(a, b, i) ==
    IF i = 0 THEN FALSE
    ELSE IF a[i] # b[i] THEN a[i] < b[i]
    ELSE BigLessFrom(a, b, i - 1)

BigLess(a, b) ==
    IF Len(a) # Len(b) THEN Len(a) < Len(b) ELSE BigLessFrom(a, b, Len(a))

BigLeq(a, b) == ~BigLess(b, a)

RECURSIVE BigMulSmallC(_, _, _)
BigMulSmallC(a, k, c) ==
    IF a = <<>> THEN BigOf(c)
    ELSE LET p == a[1] * k + c
         IN  <<p % LimbBase>> \o BigMulSmallC(Tail(a), k, p \div LimbBase)

\* a * k for 0 <= k < 2^15
BigMulSmall(a, k) == BigNorm(BigMulSmallC(a, k, 0))

RECURSIVE BigMul(_, _)
BigMul(a, b) ==
    IF b = <<>> \/ a = <<>> THEN <<>>
    ELSE BigAdd(BigMulSmall(a, b[1]),
                LET r == BigMul(a, Tail(b))
                IN  IF r = <<>> THEN <<>> ELSE <<0>> \o r)

RECURSIVE BigDivSmallFrom(_, _, _, _)
BigDivSmallFrom(a, k, i, r) ==
    IF i = 0 THEN [q |-> <<>>, r |-> r]
    ELSE LET n    == r * LimbBase + a[i]
             rest == BigDivSmallFrom(a, k, i - 1, n % k)
         IN  [q |-> rest.q \o <<n \div k>>, r |-> rest.r]

\* quotient and remainder of a by k, for 1 <= k <= 2^16
BigDivModSmall(a, k) ==
    LET x == BigDivSmallFrom(a, k, Len(a), 0)
    IN  [q |-> BigNorm(x.q), r |-> x.r]

Pow2(n) == 2^n

RECURSIVE BigShl(_, _)
BigShl(a, n) ==
    IF a = <<>> THEN <<>>
    ELSE IF n >= 15 THEN <<0>> \o BigShl(a, n - 15)
    ELSE BigMulSmall(a, Pow2(n))

RECURSIVE BigShr(_, _)
BigShr(a, n) ==
    IF a = <<>> THEN <<>>
    ELSE IF n >= 15 THEN BigShr(Tail(a), n - 15)
    ELSE IF n = 0 THEN a
    ELSE BigDivModSmall(a, Pow2(n)).q

RECURSIVE BitLenIn(_, _, _)
\* the least k of lo..hi with n < 2^k
BitLenIn(n, lo, hi) ==
    IF lo = hi THEN lo
    ELSE LET mid == (lo + hi) \div 2
         IN  IF n < Pow2(mid) THEN BitLenIn(n, lo, mid)
             ELSE BitLenIn(n, mid + 1, hi)

\* the number of bits of 0 <= n < 2^31
BitLen(n) == BitLenIn(n, 0, 31)

BigBitLen(a) == IF a = <<>> THEN 0 ELSE 15 * (Len(a) - 1) + BitLen(a[Len(a)])

\* a mod 2^n
BigLowBits(a, n) == BigSub(a, BigShl(BigShr(a, n), n))

\* a quotient digit that is never too large: the bits of a from cuta on over
\* the bits of b from cutb on, these rounded up; at least 1
BigDivLow(a, b, cuta, cutb) ==
    BigToInt(BigShr(a, cuta)) \div (BigToInt(BigShr(b, cutb)) + 1)

BigDivDigit(low, shift) ==
    IF low = 0 THEN <<1>> ELSE BigShl(BigOf(low), shift)

BigDivEstimate(a, b, cuta, cutb) ==
    BigDivDigit(BigDivLow(a, b, IF cuta > cutb THEN cuta ELSE cutb, cutb),
                IF cuta > cutb THEN cuta - cutb ELSE 0)

BigDivSum(q0, rest) == [q |-> BigAdd(q0, rest.q), r |-> rest.r]

BigDivOfSmall(x) == [q |-> x.q, r |-> BigOf(x.r)]

RECURSIVE BigDivMod(_, _)
RECURSIVE BigDivRest(_, _, _)
\* quotient and remainder of a by b > 0.  Long division: the leading 30
\* bits of a over the leading 15 bits of b estimate the quotient from
\* below; what is left of a is divided again.
BigDivRest(a, b, q0) ==
    BigDivSum(q0, BigDivMod(BigSub(a, BigMul(q0, b)), b))

BigDivMod(a, b) ==
    IF BigLess(a, b) THEN [q |-> <<>>, r |-> a]
    ELSE IF Len(b) = 1 THEN BigDivOfSmall(BigDivModSmall(a, b[1]))
    ELSE BigDivRest(a, b, BigDivEstimate(a, b, BigBitLen(a) - 30,
                                         BigBitLen(b) - 15))

(***************************************************************************)
(* IEEE single precision (float).  A finite value is                       *)
(* (-1)^s * m * 2^e with m = 0 or 2^23 <= m < 2^24; k tells a number from  *)
(* an infinity and from NaN.  Subnormals are not modelled: no value of the *)
(* model comes near 2^-126.                                                *)
(***************************************************************************)
MantBits == 24

FNum(s, m, e) == [k |-> "num", s |-> s, m |-> m, e |-> e]
FZero(s) == [k |-> "num", s |-> s, m |-> 0, e |-> 0]
FInf(s) == [k |-> "inf", s |-> s, m |-> 0, e |-> 0]
FNaN == [k |-> "nan", s |-> 0, m |-> 0, e |-> 0]

IsNaN(a) == a.k = "nan"
IsZero(a) == a.k = "num" /\ a.m = 0

\* (n + a fraction, when sticky) * 2^e for an integer 0 < n < 2^31, rounded
\* to nearest, ties to even; with sticky set n has more than 25 bits
RoundOverflow(r) == IF r.e > 104 THEN FInf(r.s) ELSE r

RoundCarry(s, m, e) ==
    RoundOverflow(IF m = Pow2(MantBits) THEN FNum(s, Pow2(MantBits - 1), e + 1)
                  ELSE FNum(s, m, e))

RoundUp(q, rem, half, sticky) ==
    rem > half \/ (rem = half /\ (sticky \/ q % 2 = 1))

RoundShift(s, n, sticky, e, shift) ==
    RoundCarry(s,
               IF RoundUp(n \div Pow2(shift), n % Pow2(shift), Pow2(shift - 1),
                          sticky)
               THEN n \div Pow2(shift) + 1 ELSE n \div Pow2(shift),
               e + shift)

RoundLen(s, n, sticky, e, len) ==
    IF len <= MantBits
    THEN FNum(s, n * Pow2(MantBits - len), e - (MantBits - len))
    ELSE RoundShift(s, n, sticky, e, len - MantBits)

RoundInt(s, n, sticky, e) == RoundLen(s, n, sticky, e, BitLen(n))

\* n * 2^e for a natural number n of any width, rounded to a float
RoundCut(s, n, e, cut) ==
    IF cut <= 4 THEN RoundInt(s, BigToInt(n), FALSE, e)
    ELSE RoundInt(s, BigToInt(BigShr(n, cut)), BigLowBits(n, cut) # <<>>,
                  e + cut)

RoundBig(s, n, e) ==
    IF n = <<>> THEN FZero(s) ELSE RoundCut(s, n, e, BigBitLen(n) - 26)

\* the conversion of an integer (uint32_t, long long, int) to float
FromBig(n) == RoundBig(0, n, 0)
FromInt(i) ==
    RoundBig(IF i < 0 THEN 1 ELSE 0, BigOf(IF i < 0 THEN -i ELSE i), 0)

RECURSIVE MantDiv(_, _, _, _)
\* n more quotient bits of r / d, for r < d < 2^24, at most six at a time
MantDiv(r, d, n, q) ==
    IF n = 0 THEN [q |-> q, r |-> r]
    ELSE LET k == IF n < 6 THEN n ELSE 6
             x == r * Pow2(k)
         IN  MantDiv(x % d, d, n - k, q * Pow2(k) + x \div d)

SignXor(a, b) == (a.s + b.s) % 2

FDivRound(s, d, e) == RoundInt(s, d.q, d.r # 0, e)

\* a / b
FDiv(a, b) ==
    IF IsNaN(a) \/ IsNaN(b) THEN FNaN
    ELSE IF a.k = "inf" THEN (IF b.k = "inf" THEN FNaN ELSE FInf(SignXor(a, b)))
    ELSE IF b.k = "inf" THEN FZero(SignXor(a, b))
    ELSE IF b.m = 0 THEN (IF a.m = 0 THEN FNaN ELSE FInf(SignXor(a, b)))
    ELSE IF a.m = 0 THEN FZero(SignXor(a, b))
    ELSE FDivRound(SignXor(a, b), MantDiv(a.m % b.m, b.m, 26, a.m \div b.m),
                   a.e - b.e - 26)

\* a * b
FMul(a, b) ==
    IF IsNaN(a) \/ IsNaN(b) THEN FNaN
    ELSE IF a.k = "inf" \/ b.k = "inf"
    THEN (IF IsZero(a) \/ IsZero(b) THEN FNaN ELSE FInf(SignXor(a, b)))
    ELSE IF a.m = 0 \/ b.m = 0 THEN FZero(SignXor(a, b))
    ELSE RoundBig(SignXor(a, b), BigMul(BigOf(a.m), BigOf(b.m)), a.e + b.e)

\* a + b for a, b >= 0 whose exponents differ by less than 64
FAdd(a, b) ==
    IF IsNaN(a) \/ IsNaN(b) THEN FNaN
    ELSE IF a.k = "inf" \/ b.k = "inf" THEN FInf(0)
    ELSE IF a.m = 0 THEN b
    ELSE IF b.m = 0 THEN a
    ELSE LET e == IF a.e < b.e THEN a.e ELSE b.e
         IN  RoundBig(0, BigAdd(BigShl(BigOf(a.m), a.e - e),
                                BigShl(BigOf(b.m), b.e - e)), e)

\* |a| < |b| for a, b not NaN
MagLess(a, b) ==
    IF a.k = "inf" THEN FALSE
    ELSE IF b.k = "inf" THEN TRUE
    ELSE IF b.m = 0 THEN FALSE
    ELSE IF a.m = 0 THEN TRUE
    ELSE a.e < b.e \/ (a.e = b.e /\ a.m < b.m)

\* a < b; false when either is NaN
FLess(a, b) ==
    IF IsNaN(a) \/ IsNaN(b) THEN FALSE
    ELSE IF IsZero(a) /\ IsZero(b) THEN FALSE
    ELSE IF a.s # b.s THEN a.s = 1
    ELSE IF a.s = 0 THEN MagLess(a, b)
    ELSE MagLess(b, a)

\* the integer part of |a| for a finite a, as a natural number; a value of
\* 2^64 or more is reported as 2^64
TruncMag(a) ==
    IF a.m = 0 THEN <<>>
    ELSE IF a.e >= 41 THEN BigShl(<<1>>, 64)
    ELSE IF a.e >= 0 THEN BigShl(BigOf(a.m), a.e)
    ELSE IF a.e <= -MantBits THEN <<>>
    ELSE BigOf(a.m \div Pow2(-a.e))

\* a mod 2^32: the value a uint32_t keeps
U32(a) == BigLowBits(a, 32)

\* a mod 2^16: the value a uint16_t keeps
U16(n) == n % 65536

(***************************************************************************)
(* Constants of PageFrequencyGenerator.cpp                                 *)
(***************************************************************************)
NUMBER_OF_FIXED_FREQUENCY_BUTTONS == 10
NUMBER_OF_FREQUENCY_RANGE_BUTTONS == 5
FREQ_SLIDER_MAX_VALUE == 300
INDEX_OF_10HZ == 2
WAVEFORM_SQUARE == 0
BUTTON_INDEX_SELECTED_INITIAL == 2
FixedFrequencyButtonCaptions == <<1, 2, 5, 10, 20, 50, 100, 200, 500, 1000>>

\* the literal 36000000000 of setWaveformFrequency and printFrequencyAndPeriod:
\* the 36 MHz timer clock in mHz, a long long
TimerClockTimes1000 == BigMul(BigOf(36000), BigOf(1000000))

\* 0xFFFFFFFF
UINT32_MAX == BigSub(BigShl(<<1>>, 32), <<1>>)

(***************************************************************************)
(* State                                                                   *)
(***************************************************************************)
VARIABLES
    build,          \* the preprocessor symbols and the target's out-of-range
                    \* float conversion: fixed for a behaviour
    sFrequencyInfo, \* struct FrequencyInfoStruct sFrequencyInfo
    is10HzRange,    \* static bool is10HzRange
    ActiveTouchButtonFrequencyRange, \* index of the active range button
    timer,          \* the synthesizer timer behind Synth_Timer*: the reload
                    \* value and prescaler last written, whether it runs
    display,        \* what printFrequencyAndPeriod last showed
    hasError,       \* result of the last setWaveformFrequency
    page,           \* whether the frequency generator page is shown
    lastEvent,      \* history: the handler that ran last and its argument
    driverCalls,    \* history: the driver calls of that handler, in order
    beforeStop      \* history: the state a stop found, kept for the start
                    \* that follows it

vars == <<build, sFrequencyInfo, is10HzRange, ActiveTouchButtonFrequencyRange,
          timer, display, hasError, page, lastEvent, driverCalls, beforeStop>>

(***************************************************************************)
(* setFrequencyFactor, lines 111-119                                       *)
(***************************************************************************)
RECURSIVE FactorLoop(_, _)
\* while (aIndexValue > 0) { tFactor *= 1000; aIndexValue--; }
FactorLoop(tFactor, aIndexValue) ==
    IF aIndexValue > 0
    THEN FactorLoop(U32(BigMulSmall(tFactor, 1000)), aIndexValue - 1)
    ELSE tFactor

\* a factor without its index: what C11 must tell from setFrequencyFactor
setFrequencyFactorOnly(info, aIndexValue) ==
    [info EXCEPT !.FrequencyFactorTimes1000 = FactorLoop(<<1>>, aIndexValue)]

setFrequencyFactor(info, aIndexValue) ==
    [info EXCEPT !.FrequencyFactorIndex = aIndexValue % 256,
                 !.FrequencyFactorTimes1000 = FactorLoop(<<1>>, aIndexValue)]

(***************************************************************************)
(* setWaveformFrequency, lines 134-160                                     *)
(***************************************************************************)
\* float tPeriod = (36000000000 / FrequencyFactorTimes1000) / Frequency
tPeriodOf(info) ==
    FDiv(FromBig(BigDivMod(TimerClockTimes1000,
                           info.FrequencyFactorTimes1000).q),
         info.Frequency)

\* whether the conversion of a to uint32_t is defined: the truncated value
\* is representable
FitsU32(a) ==
    /\ a.k = "num"
    /\ LET t == TruncMag(a)
       IN  (a.s = 0 \/ t = <<>>) /\ BigLeq(t, UINT32_MAX)

\* the conversion of an out of range value is undefined; what it yields is
\* the target's: "saturate" (the ARM VCVT instruction and __aeabi_f2uiz:
\* 0 for negative values and NaN, 0xFFFFFFFF above) or "wrap" (a conversion
\* through a 64 bit integer, truncated: the low 32 bits, 0 for infinities,
\* NaN and values of 2^63 and more)
UndefinedU32(a) ==
    IF build.conversion = "saturate"
    THEN (IF a.k = "nan" \/ a.s = 1 THEN <<>> ELSE UINT32_MAX)
    ELSE IF a.k # "num" \/ BigBitLen(TruncMag(a)) > 63 THEN <<>>
    ELSE LET low == U32(TruncMag(a))
         IN  IF a.s = 1 /\ low # <<>> THEN BigSub(BigShl(<<1>>, 32), low)
             ELSE low

\* uint32_t tPeriodInt = tPeriod
FloatToU32(a) == IF FitsU32(a) THEN TruncMag(a) ELSE UndefinedU32(a)

\* a clip that also takes 2 for too small: what C2 must tell from LowerClip
LowerClipAtTwo(tPeriodInt) ==
    IF BigLess(tPeriodInt, <<3>>)
    THEN [hasError |-> TRUE, tPeriodInt |-> <<2>>]
    ELSE [hasError |-> FALSE, tPeriodInt |-> tPeriodInt]

\* if (tPeriodInt < 2) { hasError = true; tPeriodInt = 2; }
LowerClip(tPeriodInt) ==
    IF BigLess(tPeriodInt, <<2>>)
    THEN [hasError |-> TRUE, tPeriodInt |-> <<2>>]
    ELSE [hasError |-> FALSE, tPeriodInt |-> tPeriodInt]

\* a prescaler without the + 1: what C1 must tell from PrescalerValue
PrescalerValueNoCarry(tPeriodInt) == BigShr(tPeriodInt, 16)

\* uint32_t tPrescalerValue = (tPeriodInt >> 16) + 1
PrescalerValue(tPeriodInt) == BigAdd(BigShr(tPeriodInt, 16), <<1>>)

\* a division by one more than the prescaler: what C4 must tell from
\* ReloadValue16
ReloadValue16Coarse(tPeriodInt, tPrescalerValue) ==
    IF BigLess(<<1>>, tPrescalerValue)
    THEN BigDivModSmall(tPeriodInt, BigToInt(tPrescalerValue) + 1).q
    ELSE tPeriodInt

\* if (tPrescalerValue > 1) { tPeriodInt /= tPrescalerValue; }
ReloadValue16(tPeriodInt, tPrescalerValue) ==
    IF BigLess(<<1>>, tPrescalerValue)
    THEN BigDivModSmall(tPeriodInt, BigToInt(tPrescalerValue)).q
    ELSE tPeriodInt

\* Synth_Timer32_SetReloadValue(tPeriodInt); DividerInt = tPeriodInt
Timer32SetReloadValue(info, tim, clip) ==
    [info |-> [info EXCEPT !.DividerInt = clip.tPeriodInt],
     timer |-> [tim EXCEPT !.reload = clip.tPeriodInt],
     calls |-> <<"SetReloadValue">>,
     hasError |-> clip.hasError]

\* Synth_Timer16_SetReloadValue(tPeriodInt, tPrescalerValue);
\* tPeriodInt *= tPrescalerValue; DividerInt = tPeriodInt
Timer16SetReloadValue(info, tim, hasErr, reload, tPrescalerValue) ==
    [info |-> [info EXCEPT !.DividerInt =
                   U32(BigMul(reload, tPrescalerValue))],
     timer |-> [tim EXCEPT !.reload = reload, !.prescaler = tPrescalerValue],
     calls |-> <<"SetReloadValue">>,
     hasError |-> hasErr]

Timer16Prescaled(info, tim, clip, tPrescalerValue) ==
    Timer16SetReloadValue(info, tim, clip.hasError,
                          ReloadValue16(clip.tPeriodInt, tPrescalerValue),
                          tPrescalerValue)

\* the square wave branch, from the clipped tPeriodInt on
SetTimerPeriod(info, tim, clip) ==
    IF build.STM32F30X THEN Timer32SetReloadValue(info, tim, clip)
    ELSE Timer16Prescaled(info, tim, clip, PrescalerValue(clip.tPeriodInt))

setWaveformFrequency(info, tim) ==
    IF info.Waveform = WAVEFORM_SQUARE
    THEN SetTimerPeriod(info, tim, LowerClip(FloatToU32(tPeriodOf(info))))
    ELSE [info |-> info, timer |-> tim, calls |-> <<>>, hasError |-> TRUE]

(***************************************************************************)
(* setFrequency, lines 162-177                                             *)
(***************************************************************************)
F1 == FromInt(1)
F100 == FromInt(100)
F1000 == FromInt(1000)

RECURSIVE AutoscaleLoopFrom1000(_, _)
\* a loop that also divides 1000: what C7 must tell from AutoscaleLoop
AutoscaleLoopFrom1000(aValue, tIndex) ==
    IF ~FLess(aValue, F1000)
    THEN AutoscaleLoopFrom1000(FDiv(aValue, F1000), (tIndex + 1) % 256)
    ELSE [aValue |-> aValue, tIndex |-> tIndex]

RECURSIVE AutoscaleLoop(_, _)
\* while (aValue > 1000) { aValue /= 1000; tIndex++; }
AutoscaleLoop(aValue, tIndex) ==
    IF FLess(F1000, aValue)
    THEN AutoscaleLoop(FDiv(aValue, F1000), (tIndex + 1) % 256)
    ELSE [aValue |-> aValue, tIndex |-> tIndex]

\* the unit and the value setFrequency chooses for a square wave
\* if (aValue < 1) { tIndex = 0; aValue *= 1000; }
AutoscaleBelow1(up) ==
    IF FLess(up.aValue, F1)
    THEN [aValue |-> FMul(up.aValue, F1000), tIndex |-> 0]
    ELSE up

Autoscale(aValue) == AutoscaleBelow1(AutoscaleLoop(aValue, 1))

\* setFrequencyFactor(tIndex); sFrequencyInfo.Frequency = aValue
StoreScaled(info, scaled) ==
    [setFrequencyFactor(info, scaled.tIndex) EXCEPT !.Frequency = scaled.aValue]

setFrequency(info, tim, aValue) ==
    setWaveformFrequency(IF info.Waveform = WAVEFORM_SQUARE
                         THEN StoreScaled(info, Autoscale(aValue))
                         ELSE [info EXCEPT !.Frequency = aValue],
                         tim)

(***************************************************************************)
(* libm.  pow and log10f are not code of the repository; their values at   *)
(* the arguments the model reaches are tabulated (correctly rounded to     *)
(* float).  An argument outside a table stops TLC.                         *)
(***************************************************************************)
\* (float) pow(10, tValue)
pow10(tValue) ==
    CASE tValue = FZero(0) -> FNum(0, 8388608, -23)                 \* pow10(0.0) = 1.0
      [] tValue = FNum(0, 8388608, -23) -> FNum(0, 10485760, -20)   \* pow10(1.0) = 10.0
      [] tValue = FNum(0, 12582912, -23) -> FNum(0, 16579442, -19)  \* pow10(1.5) = 31.62277603149414
      [] tValue = FNum(0, 10485760, -22) -> FNum(0, 10362151, -15)  \* pow10(2.5) = 316.2277526855469
      [] tValue = FNum(0, 12582912, -22) -> FNum(0, 16384000, -14)  \* pow10(3.0) = 1000.0
      [] tValue = FNum(0, 8388608, -21) -> FNum(0, 10240000, -10)   \* pow10(4.0) = 10000.0

log10fPositive(a) ==
    CASE a = FNum(0, 8388608, -24) -> FNum(1, 10100891, -25)   \* log10f(0.5) = -0.3010300099849701
      [] a = FNum(0, 8388608, -23) -> FZero(0)                 \* log10f(1.0) = 0.0
      [] a = FNum(0, 10356299, -23) -> FNum(0, 12282892, -27)  \* log10f(1.2345670461654663) = 0.09151467680931091
      [] a = FNum(0, 12582912, -23) -> FNum(0, 11817284, -26)  \* log10f(1.5) = 0.1760912537574768
      [] a = FNum(0, 8388608, -22) -> FNum(0, 10100891, -25)   \* log10f(2.0) = 0.3010300099849701
      [] a = FNum(0, 10485760, -21) -> FNum(0, 11726771, -24)  \* log10f(5.0) = 0.6989700198173523
      [] a = FNum(0, 10485760, -20) -> FNum(0, 8388608, -23)   \* log10f(10.0) = 1.0
      [] a = FNum(0, 9437184, -19) -> FNum(0, 10529989, -23)   \* log10f(18.0) = 1.2552725076675415
      [] a = FNum(0, 10485760, -19) -> FNum(0, 10913831, -23)  \* log10f(20.0) = 1.3010300397872925
      [] a = FNum(0, 16579442, -19) -> FNum(0, 12582912, -23)  \* log10f(31.62277603149414) = 1.5
      [] a = FNum(0, 13107200, -18) -> FNum(0, 14251993, -23)  \* log10f(50.0) = 1.6989699602127075
      [] a = FNum(0, 13107200, -17) -> FNum(0, 8388608, -22)   \* log10f(100.0) = 2.0
      [] a = FNum(0, 13107200, -16) -> FNum(0, 9651219, -22)   \* log10f(200.0) = 2.301029920578003
      [] a = FNum(0, 10362151, -15) -> FNum(0, 10485760, -22)  \* log10f(316.2277526855469) = 2.5
      [] a = FNum(0, 16384000, -15) -> FNum(0, 11320301, -22)  \* log10f(500.0) = 2.698970079421997
      [] a = FNum(0, 16384000, -14) -> FNum(0, 12582912, -22)  \* log10f(1000.0) = 3.0
      [] a = FNum(0, 12288000, -13) -> FNum(0, 13321492, -22)  \* log10f(1500.0) = 3.176091194152832
      [] a = FNum(0, 16384000, -13) -> FNum(0, 13845523, -22)  \* log10f(2000.0) = 3.301029920578003
      [] a = FNum(0, 10240000, -11) -> FNum(0, 15514605, -22)  \* log10f(5000.0) = 3.698970079421997
      [] a = FNum(0, 10240000, -10) -> FNum(0, 8388608, -21)   \* log10f(10000.0) = 4.0
      [] a = FNum(0, 9876536, -3) -> FNum(0, 12774832, -21)    \* log10f(1234567.0) = 6.091514587402344
      [] a = FNum(0, 9000000, 1) -> FNum(0, 15215409, -21)     \* log10f(18000000.0) = 7.255272388458252
      [] a = FNum(0, 10000000, 1) -> FNum(0, 15311370, -21)    \* log10f(20000000.0) = 7.301030158996582
      [] a = FNum(0, 15625000, 7) -> FNum(0, 9752837, -20)     \* log10f(2000000000.0) = 9.301030158996582

\* log10f(a): -infinity at 0, NaN below 0 and at NaN
log10f(a) ==
    IF IsNaN(a) THEN FNaN
    ELSE IF IsZero(a) THEN FInf(1)
    ELSE IF a.s = 1 THEN FNaN
    ELSE IF a.k = "inf" THEN FInf(0)
    ELSE log10fPositive(a)

(***************************************************************************)
(* printFrequencyAndPeriod, lines 552-598 (the non-AVR branch; the period  *)
(* text is not modelled)                                                   *)
(***************************************************************************)
\* uint16_t tSliderValue = (a float): defined for values that truncate into
\* 0..65535, else what the target's conversion leaves in the low 16 bits
FloatToU16(a) ==
    IF a.k = "num" /\ (a.s = 0 \/ TruncMag(a) = <<>>)
       /\ BigLess(TruncMag(a), BigOf(65536))
    THEN BigToInt(TruncMag(a))
    ELSE BigToInt(BigLowBits(UndefinedU32(a), 16))

\* float tFrequency = (36000000000 / FrequencyFactorTimes1000) / tPeriodFloat
RealizedFrequency(info) ==
    FDiv(FromBig(BigDivMod(TimerClockTimes1000,
                           info.FrequencyFactorTimes1000).q),
         FromBig(info.DividerInt))

\* uint16_t tSliderValue = log10f(Frequency) * 100;
\* if (is10HzRange) { tSliderValue -= 100; }
SliderValueIn(tSliderValue, aIs10HzRange) ==
    IF aIs10HzRange THEN U16(tSliderValue - 100) ELSE tSliderValue

SliderValue(aFrequency, aIs10HzRange) ==
    SliderValueIn(FloatToU16(FMul(log10f(aFrequency), F100)), aIs10HzRange)

printFrequencyAndPeriod(info, aIs10HzRange) ==
    [tFrequency |-> RealizedFrequency(info),
     tSliderValue |-> SliderValue(info.Frequency, aIs10HzRange)]

\* SetWaveformFrequencyAndPrintValues, lines 606-610
PrintValues(r, aIs10HzRange) ==
    [info |-> r.info, timer |-> r.timer, calls |-> r.calls,
     hasError |-> r.hasError,
     display |-> printFrequencyAndPeriod(r.info, aIs10HzRange)]

SetWaveformFrequencyAndPrintValues(info, tim, aIs10HzRange) ==
    PrintValues(setWaveformFrequency(info, tim), aIs10HzRange)

(***************************************************************************)
(* Inputs                                                                  *)
(***************************************************************************)
\* the slider positions the model draws, of 0..FREQ_SLIDER_MAX_VALUE
SliderValues == {0, 300}

\* the fixed frequency buttons the model presses, of
\* 1..NUMBER_OF_FIXED_FREQUENCY_BUTTONS: the first and the last
FixedButtons == {1, NUMBER_OF_FIXED_FREQUENCY_BUTTONS}

\* the numbers the number pad and the number receive event deliver
NumberValues ==
    << FNum(0, 16384000, -14),  \* 1000.0
       FNum(0, 9000000, 1),     \* 18000000.0
       FZero(0),                \* 0.0
       FNaN,                    \* nan
       FNum(0, 15625000, 7),    \* 2000000000.0
       FNum(0, 9876536, -3),    \* 1234567.0
       FNum(0, 8388608, -24),   \* 0.5
       FNum(1, 8388608, -23)    \* -1.0
    >>

\* how many of NumberValues the model draws
MaxNumber == 7

Numbers == {NumberValues[i] : i \in {j \in 1..MaxNumber : j <= Len(NumberValues)}}

Builds == [STM32F30X : BOOLEAN, LOCAL_DISPLAY_EXISTS : BOOLEAN,
           conversion : {"saturate", "wrap"}]

(***************************************************************************)
(* History                                                                 *)
(***************************************************************************)
\* same: the handler left sFrequencyInfo as it was and called no driver
Event(kind, arg, info, calls) ==
    [kind |-> kind, arg |-> arg,
     same |-> info = sFrequencyInfo /\ calls = <<>>]

Snapshot == [info |-> sFrequencyInfo, reload |-> timer.reload,
             prescaler |-> timer.prescaler]

\* the effect of a handler that ends in result r
Finish(r, kind, arg) ==
    /\ sFrequencyInfo' = r.info
    /\ timer' = r.timer
    /\ display' = r.display
    /\ hasError' = r.hasError
    /\ driverCalls' = r.calls
    /\ lastEvent' = Event(kind, arg, r.info, r.calls)
    /\ beforeStop' = <<>>
    /\ UNCHANGED <<build, page>>

(***************************************************************************)
(* initFrequencyGenerator, initFrequencyGeneratorPage, lines 233-253       *)
(***************************************************************************)
Init ==
    /\ build \in Builds
    /\ \E r \in {setFrequency([DividerInt |-> <<>>, Frequency |-> FZero(0),
                              FrequencyFactorTimes1000 |-> <<>>,
                              FrequencyFactorIndex |-> 0,
                              Waveform |-> WAVEFORM_SQUARE,
                              isOutputEnabled |-> FALSE],
                             [reload |-> BigOf(36000), prescaler |-> <<1>>,
                              running |-> FALSE],
                             FromInt(200))} :
           /\ sFrequencyInfo = [r.info EXCEPT !.isOutputEnabled = TRUE]
           /\ timer = r.timer
           /\ hasError = r.hasError
           /\ driverCalls = r.calls
    /\ is10HzRange = TRUE
    /\ ActiveTouchButtonFrequencyRange = BUTTON_INDEX_SELECTED_INITIAL
    /\ display = [tFrequency |-> FZero(0), tSliderValue |-> 0]
    /\ page = FALSE
    /\ lastEvent = [kind |-> "init", arg |-> FZero(0), same |-> FALSE]
    /\ beforeStop = <<>>

(***************************************************************************)
(* Handlers                                                                *)
(***************************************************************************)
\* startFrequencyGeneratorPage, lines 255-274
startFrequencyGeneratorPage ==
    /\ ~page
    /\ page' = TRUE
    /\ ActiveTouchButtonFrequencyRange' =
           IF build.LOCAL_DISPLAY_EXISTS THEN BUTTON_INDEX_SELECTED_INITIAL
           ELSE ActiveTouchButtonFrequencyRange
    /\ \E r \in {setWaveformFrequency(sFrequencyInfo, timer)} :
           /\ sFrequencyInfo' = r.info
           /\ timer' = [r.timer EXCEPT !.running = TRUE]
           /\ display' = printFrequencyAndPeriod(sFrequencyInfo, is10HzRange)
           /\ hasError' = r.hasError
           /\ driverCalls' = r.calls \o <<"Start">>
           /\ lastEvent' = Event("startPage", FZero(0), r.info,
                                 r.calls \o <<"Start">>)
    /\ beforeStop' = <<>>
    /\ UNCHANGED <<build, is10HzRange>>

\* stopFrequencyGeneratorPage, lines 280-299
stopFrequencyGeneratorPage ==
    /\ page
    /\ page' = FALSE
    /\ driverCalls' = <<>>
    /\ lastEvent' = Event("stopPage", FZero(0), sFrequencyInfo, <<>>)
    /\ beforeStop' = <<>>
    /\ UNCHANGED <<build, sFrequencyInfo, is10HzRange,
                   ActiveTouchButtonFrequencyRange, timer, display, hasError>>

\* doFrequencySlider, lines 434-443
doFrequencySlider(aValue) ==
    /\ page
    /\ \E tValue \in {FDiv(FromInt(aValue),
                           FromInt(FREQ_SLIDER_MAX_VALUE \div 3))} :
       \E r \in {SetWaveformFrequencyAndPrintValues(
                    [sFrequencyInfo EXCEPT !.Frequency =
                         pow10(IF is10HzRange THEN FAdd(tValue, F1)
                               ELSE tValue)],
                    timer, is10HzRange)} :
           Finish(r, "slider", FZero(0))
    /\ UNCHANGED <<is10HzRange, ActiveTouchButtonFrequencyRange>>

\* doSetFixedFrequency, lines 462-472
doSetFixedFrequency(aValue) ==
    /\ page
    /\ LET tValue == IF is10HzRange THEN aValue * 10 ELSE aValue
       IN  \E r \in {SetWaveformFrequencyAndPrintValues(
                        [sFrequencyInfo EXCEPT !.Frequency = FromInt(tValue)],
                        timer, is10HzRange)} :
               Finish(r, "fixed", FZero(0))
    /\ UNCHANGED <<is10HzRange, ActiveTouchButtonFrequencyRange>>

\* doChangeFrequencyRange, lines 478-495
doChangeFrequencyRange(aValue) ==
    /\ page
    /\ ActiveTouchButtonFrequencyRange # aValue
    /\ ActiveTouchButtonFrequencyRange' = aValue
    /\ is10HzRange' = (aValue = INDEX_OF_10HZ)
    /\ LET tIndex == IF aValue >= INDEX_OF_10HZ THEN aValue - 1 ELSE aValue
       IN  \E r \in {SetWaveformFrequencyAndPrintValues(
                        setFrequencyFactor(sFrequencyInfo, tIndex), timer,
                        aValue = INDEX_OF_10HZ)} :
               Finish(r, "range", FZero(0))

\* doGetFrequency with a number pad, lines 503-512
doGetFrequency(tNumber) ==
    /\ page
    /\ build.LOCAL_DISPLAY_EXISTS
    /\ \E r \in {SetWaveformFrequencyAndPrintValues(
                    IF ~IsNaN(tNumber)
                    THEN [sFrequencyInfo EXCEPT !.Frequency = tNumber]
                    ELSE sFrequencyInfo,
                    timer, is10HzRange)} :
           Finish(r, "number", tNumber)
    /\ UNCHANGED <<is10HzRange, ActiveTouchButtonFrequencyRange>>

\* setFrequency(aValue); printFrequencyAndPeriod();
SetFrequencyAndPrintValues(info, tim, aValue, aIs10HzRange) ==
    PrintValues(setFrequency(info, tim, aValue), aIs10HzRange)

\* doSetFrequency, the number receive event, lines 518-521
doSetFrequency(aValue) ==
    /\ page
    /\ ~build.LOCAL_DISPLAY_EXISTS
    /\ \E r \in {SetFrequencyAndPrintValues(sFrequencyInfo, timer, aValue,
                                            is10HzRange)} :
           Finish(r, "number", aValue)
    /\ UNCHANGED <<is10HzRange, ActiveTouchButtonFrequencyRange>>

\* doFrequencyGeneratorStartStop, lines 531-547; the toggle button hands
\* over the value it did not have
StartOutput(info, tim, aIs10HzRange) ==
    SetWaveformFrequencyAndPrintValues([info EXCEPT !.isOutputEnabled = TRUE],
                                       [tim EXCEPT !.running = TRUE],
                                       aIs10HzRange)

\* a stop that clears the reload value: what C10 must tell from StopOutput
StopOutputClearing(info, tim) ==
    [info |-> [info EXCEPT !.isOutputEnabled = FALSE],
     timer |-> [tim EXCEPT !.running = FALSE, !.reload = <<>>],
     calls |-> <<"Stop">>]

StopOutput(info, tim) ==
    [info |-> [info EXCEPT !.isOutputEnabled = FALSE],
     timer |-> [tim EXCEPT !.running = FALSE],
     calls |-> <<"Stop">>]

doFrequencyGeneratorStartStop ==
    /\ page
    /\ IF ~sFrequencyInfo.isOutputEnabled
       THEN \E r \in {StartOutput(sFrequencyInfo, timer, is10HzRange)} :
                /\ sFrequencyInfo' = r.info
                /\ timer' = r.timer
                /\ display' = r.display
                /\ hasError' = r.hasError
                /\ driverCalls' = <<"Start">> \o r.calls
                /\ lastEvent' = Event("start", FZero(0), r.info,
                                      <<"Start">> \o r.calls)
                /\ beforeStop' = IF lastEvent.kind = "stop" THEN beforeStop
                                 ELSE <<>>
       ELSE \E r \in {StopOutput(sFrequencyInfo, timer)} :
                /\ sFrequencyInfo' = r.info
                /\ timer' = r.timer
                /\ driverCalls' = r.calls
                /\ lastEvent' = Event("stop", FZero(0), r.info, r.calls)
                /\ beforeStop' = <<Snapshot>>
                /\ UNCHANGED <<display, hasError>>
    /\ UNCHANGED <<build, is10HzRange, ActiveTouchButtonFrequencyRange, page>>

Next ==
    \/ startFrequencyGeneratorPage
    \/ stopFrequencyGeneratorPage
    \/ \E aValue \in SliderValues : doFrequencySlider(aValue)
    \/ \E i \in FixedButtons :
           doSetFixedFrequency(FixedFrequencyButtonCaptions[i])
    \/ \E aValue \in 0..(NUMBER_OF_FREQUENCY_RANGE_BUTTONS - 1) :
           doChangeFrequencyRange(aValue)
    \/ \E tNumber \in Numbers : doGetFrequency(tNumber)
    \/ \E aValue \in Numbers : doSetFrequency(aValue)
    \/ doFrequencyGeneratorStartStop

Spec == Init /\ [][Next]_vars

(***************************************************************************)
(* Exact arithmetic for the properties: the tick count the translation     *)
(* aims at is floor((36000000000 / FrequencyFactorTimes1000) / Frequency), *)
(* taken here without rounding.                                            *)
(***************************************************************************)
PositiveFinite(a) == a.k = "num" /\ a.s = 0 /\ a.m # 0

\* 36000000000 / FrequencyFactorTimes1000, the integer division
ClockPerFactor(info) ==
    BigDivMod(TimerClockTimes1000, info.FrequencyFactorTimes1000).q

\* x < n * f, for natural numbers x, n and a positive finite float f
LessThanTimes(x, n, f) ==
    IF f.e >= 0
    THEN BigLess(x, BigShl(BigMul(n, BigOf(f.m)), f.e))
    ELSE BigLess(BigShl(x, -f.e), BigMul(n, BigOf(f.m)))

\* floor(ClockPerFactor / Frequency) < n
TicksBelow(info, n) == LessThanTimes(ClockPerFactor(info), n, info.Frequency)

\* a square wave whose target is positive and finite
ValidTarget(info) ==
    info.Waveform = WAVEFORM_SQUARE /\ PositiveFinite(info.Frequency)

\* the target is inside the representable range: 2 <= ticks <= 0xFFFFFFFF
InRange(info) ==
    /\ ValidTarget(info)
    /\ ~TicksBelow(info, <<2>>)
    /\ TicksBelow(info, BigShl(<<1>>, 32))

Retuned == lastEvent.kind \in {"fixed", "slider", "number"}

\* a / 2^e as a natural number, for a finite float a >= 0 and e <= a.e
Scaled(a, e) == BigShl(BigOf(a.m), a.e - e)

MinExp(a, b) == IF a.e < b.e THEN a.e ELSE b.e

\* |x - y| for natural numbers
BigAbsDiff(x, y) == IF BigLess(x, y) THEN BigSub(y, x) ELSE BigSub(x, y)

RECURSIVE Power1000(_)
\* 1000^n, without a width
Power1000(n) == IF n = 0 THEN <<1>> ELSE BigMulSmall(Power1000(n - 1), 1000)

\* the handlers that print the frequency after translating
Printed == lastEvent.kind \in {"fixed", "slider", "number", "range", "start"}

\* |shown - Frequency| / Frequency <= 1 / DividerInt
WithinOneStep(info, shown) ==
    LET e == MinExp(shown, info.Frequency)
    IN  BigLeq(BigMul(BigAbsDiff(Scaled(shown, e), Scaled(info.Frequency, e)),
                      info.DividerInt),
               Scaled(info.Frequency, e))

\* |shown - Frequency| / Frequency <= prescaler / DividerInt + 2^-21
WithinPrescalerSteps(info, shown, prescaler) ==
    LET e == MinExp(shown, info.Frequency)
    IN  BigLeq(BigShl(BigMul(BigAbsDiff(Scaled(shown, e),
                                        Scaled(info.Frequency, e)),
                             info.DividerInt), 21),
               BigMul(Scaled(info.Frequency, e),
                      BigAdd(BigShl(prescaler, 21), info.DividerInt)))

\* |t * 1000^n - f| <= f * n * 2^-23: t is f after n divisions by 1000, each
\* rounded to a float
DividedBy1000(t, n, f) ==
    LET e == MinExp(t, f)
    IN  BigLeq(BigShl(BigAbsDiff(BigMul(Scaled(t, e), Power1000(n)),
                                 Scaled(f, e)), 23),
               BigMulSmall(Scaled(f, e), n))

\* |t - 1000 * f| <= 1000 * f * 2^-23: t is f * 1000, rounded to a float
Times1000(t, f) ==
    LET e == MinExp(t, f)
    IN  BigLeq(BigShl(BigAbsDiff(Scaled(t, e), BigMulSmall(Scaled(f, e), 1000)),
                      23),
               BigMulSmall(Scaled(f, e), 1000))

\* the number receive event delivered a positive finite number
Autoscaled ==
    /\ lastEvent.kind = "number"
    /\ ~build.LOCAL_DISPLAY_EXISTS
    /\ PositiveFinite(lastEvent.arg)

SameTranslation(snap) ==
    /\ timer.reload = snap.reload
    /\ timer.prescaler = snap.prescaler
    /\ sFrequencyInfo.DividerInt = snap.info.DividerInt

(***************************************************************************)
(* Properties                                                              *)
(***************************************************************************)
\* C1: after a fixed frequency button, a slider event or a number entry with
\* a square wave and a target inside the representable range, the reload
\* value written to the driver is at least 2, the prescaler is at least 1,
\* and on the 16 bit timer the reload value is below 65536.
C1_TranslationInRange ==
    (Retuned /\ InRange(sFrequencyInfo)) =>
        /\ BigLeq(<<2>>, timer.reload)
        /\ BigLeq(<<1>>, timer.prescaler)
        /\ BigLeq(<<2>>, sFrequencyInfo.DividerInt)
        /\ (~build.STM32F30X => BigLess(timer.reload, BigOf(65536)))

\* a fixed frequency button on the 16 bit timer led to a prescaler above 1
C1_Witness ==
    /\ lastEvent.kind = "fixed"
    /\ InRange(sFrequencyInfo)
    /\ ~build.STM32F30X
    /\ BigLess(<<1>>, timer.prescaler)
    /\ BigLess(timer.reload, BigOf(65536))

\* C2: for a square wave with a positive finite target whose tick count fits
\* 32 bits, the translation reports an error exactly when
\* floor((36000000000 / FrequencyFactorTimes1000) / Frequency) < 2, and then
\* the reload value is 2 (with prescaler 1); when the tick count is exactly
\* 2 the reload value is 2 and no error is reported.
C2_LowerClip ==
    (ValidTarget(sFrequencyInfo)
     /\ TicksBelow(sFrequencyInfo, BigShl(<<1>>, 32))) =>
        /\ hasError = TicksBelow(sFrequencyInfo, <<2>>)
        /\ TicksBelow(sFrequencyInfo, <<3>>) =>
               /\ timer.reload = <<2>>
               /\ timer.prescaler = <<1>>
               /\ sFrequencyInfo.DividerInt = <<2>>

\* a number entry gave a tick count of exactly 2: reload value 2, no error
C2_Witness ==
    /\ lastEvent.kind = "number"
    /\ ValidTarget(sFrequencyInfo)
    /\ ~TicksBelow(sFrequencyInfo, <<2>>)
    /\ TicksBelow(sFrequencyInfo, <<3>>)
    /\ timer.reload = <<2>>
    /\ ~hasError

\* C3: on the 32 bit timer, whenever the tick count of a positive finite
\* target exceeds 0xFFFFFFFF the translation reports an error and the reload
\* value stored and written to the driver is 0xFFFFFFFF.
C3_UpperClip ==
    (build.STM32F30X /\ ValidTarget(sFrequencyInfo)
     /\ ~TicksBelow(sFrequencyInfo, BigShl(<<1>>, 32))) =>
        /\ hasError
        /\ timer.reload = UINT32_MAX
        /\ sFrequencyInfo.DividerInt = UINT32_MAX
\* C4 as stated: for every target inside the representable range the shown
\* frequency, recomputed from DividerInt, differs from Frequency by a
\* relative error of at most 1 / DividerInt.
C4_QuantizationOneStep ==
    (Printed /\ InRange(sFrequencyInfo)) =>
        WithinOneStep(sFrequencyInfo, display.tFrequency)

\* C4, amended: for every target inside the representable range the shown
\* frequency, recomputed from DividerInt, differs from Frequency by a
\* relative error of at most prescaler / DividerInt + 2^-21, where the
\* prescaler is 1 on the 32 bit timer and (ticks >> 16) + 1 on the 16 bit
\* timer.
C4_QuantizationBound ==
    (Printed /\ InRange(sFrequencyInfo)) =>
        /\ display.tFrequency = RealizedFrequency(sFrequencyInfo)
        /\ WithinPrescalerSteps(sFrequencyInfo, display.tFrequency,
                                timer.prescaler)

\* on the 16 bit timer a target was rounded by more than one step of the
\* divider and less than a prescaler's worth of steps
C4_Witness ==
    /\ Printed
    /\ InRange(sFrequencyInfo)
    /\ ~build.STM32F30X
    /\ BigLess(<<1>>, timer.prescaler)
    /\ ~WithinOneStep(sFrequencyInfo, display.tFrequency)
    /\ WithinPrescalerSteps(sFrequencyInfo, display.tFrequency, timer.prescaler)

\* C5: after a number entry that is zero, negative, infinite or NaN the
\* frequency, the factor and its index and the divider are as they were
\* before the entry, and the driver was not called.
C5_InvalidEntryIgnored ==
    (lastEvent.kind = "number" /\ ~PositiveFinite(lastEvent.arg)) =>
        lastEvent.same

\* C6: in every reachable state FrequencyFactorIndex is one of 0, 1, 2, 3 and
\* FrequencyFactorTimes1000 is 1000^FrequencyFactorIndex.
C6_DecadeIndex ==
    /\ sFrequencyInfo.FrequencyFactorIndex \in 0..3
    /\ sFrequencyInfo.FrequencyFactorTimes1000 =
           Power1000(sFrequencyInfo.FrequencyFactorIndex)

\* C7 as stated: after the number receive event delivered f >= 1 the stored
\* frequency lies in [1, 1000) and frequency * 1000^(index - 1) equals f.
C7_AutoscaleExact ==
    (Autoscaled /\ ~FLess(lastEvent.arg, F1)) =>
        /\ sFrequencyInfo.FrequencyFactorIndex >= 1
        /\ ~FLess(sFrequencyInfo.Frequency, F1)
        /\ FLess(sFrequencyInfo.Frequency, F1000)
        /\ LET e == MinExp(sFrequencyInfo.Frequency, lastEvent.arg)
           IN  BigMul(Scaled(sFrequencyInfo.Frequency, e),
                      Power1000(sFrequencyInfo.FrequencyFactorIndex - 1))
               = Scaled(lastEvent.arg, e)

\* C7, amended: after the number receive event delivered a positive finite
\* f, a value f < 1 is stored as f * 1000 (rounded to a float) with index
\* 0; a value 1 <= f <= 1000 is stored unchanged with index 1; a value
\* f > 1000 is divided by 1000 until it is at most 1000, the index is 1 plus
\* the number of divisions, the stored frequency lies in [1, 1000], and
\* frequency * 1000^(index - 1) equals f up to the rounding of each
\* division (a relative error of at most (index - 1) * 2^-23).
C7_Autoscale ==
    Autoscaled =>
        LET f == lastEvent.arg
            t == sFrequencyInfo.Frequency
            i == sFrequencyInfo.FrequencyFactorIndex
        IN  IF FLess(f, F1) THEN i = 0 /\ PositiveFinite(t) /\ Times1000(t, f)
            ELSE IF ~FLess(F1000, f) THEN i = 1 /\ t = f
            ELSE /\ i >= 2
                 /\ PositiveFinite(t)
                 /\ ~FLess(t, F1)
                 /\ ~FLess(F1000, t)
                 /\ DividedBy1000(t, i - 1, f)

\* the number receive event delivered exactly 1000: stored as 1000 with
\* index 1
C7_Witness ==
    /\ Autoscaled
    /\ lastEvent.arg = F1000
    /\ sFrequencyInfo.Frequency = F1000
    /\ sFrequencyInfo.FrequencyFactorIndex = 1

\* C8: in every reachable state is10HzRange is true only if
\* FrequencyFactorIndex is 1 and the 10Hz range button is the active one.
C8_TenHzRange ==
    is10HzRange =>
        /\ sFrequencyInfo.FrequencyFactorIndex = 1
        /\ ActiveTouchButtonFrequencyRange = INDEX_OF_10HZ

\* C9: whenever the frequency is positive and finite, the slider value
\* printFrequencyAndPeriod published for it is in 0..FREQ_SLIDER_MAX_VALUE.
C9_SliderRange ==
    ValidTarget(sFrequencyInfo) =>
        display.tSliderValue \in 0..FREQ_SLIDER_MAX_VALUE

\* C10: a stop calls the driver's stop and nothing else and leaves the
\* frequency, the factor and its index, the divider, the reload value and
\* the prescaler as they were; a start that follows a stop immediately ends
\* with the reload value, the prescaler and the divider of before the stop.
C10_StopStart ==
    /\ lastEvent.kind = "stop" =>
           /\ beforeStop # <<>>
           /\ driverCalls = <<"Stop">>
           /\ sFrequencyInfo =
                  [beforeStop[1].info EXCEPT !.isOutputEnabled = FALSE]
           /\ SameTranslation(beforeStop[1])
    /\ (lastEvent.kind = "start" /\ beforeStop # <<>>) =>
           /\ SameTranslation(beforeStop[1])
           /\ sFrequencyInfo =
                  [beforeStop[1].info EXCEPT !.isOutputEnabled = TRUE]

\* a start followed a stop on the 16 bit timer, the prescaler above 1
C10_Witness ==
    /\ lastEvent.kind = "start"
    /\ beforeStop # <<>>
    /\ ~build.STM32F30X
    /\ BigLess(<<1>>, timer.prescaler)
    /\ SameTranslation(beforeStop[1])

\* floor((36000000000 / FrequencyFactorTimes1000) / Frequency) without
\* rounding, for a positive finite Frequency
ExactTicks(info) ==
    IF info.Frequency.e >= 0
    THEN BigDivMod(ClockPerFactor(info),
                   BigShl(BigOf(info.Frequency.m), info.Frequency.e)).q
    ELSE BigDivMod(BigShl(ClockPerFactor(info), -info.Frequency.e),
                   BigOf(info.Frequency.m)).q

\* the unit index of range button aValue: mHz, Hz, 10Hz, kHz, MHz
RangeIndex(aValue) == IF aValue >= INDEX_OF_10HZ THEN aValue - 1 ELSE aValue

\* a range button was the last event; the button is the active one now
RangeChanged == lastEvent.kind = "range"

\* what a range button sets: the index and the factor of the button
RangeSet ==
    /\ ActiveTouchButtonFrequencyRange
           \in 0..(NUMBER_OF_FREQUENCY_RANGE_BUTTONS - 1)
    /\ sFrequencyInfo.FrequencyFactorIndex =
           RangeIndex(ActiveTouchButtonFrequencyRange)
    /\ sFrequencyInfo.FrequencyFactorTimes1000 =
           Power1000(RangeIndex(ActiveTouchButtonFrequencyRange))
    /\ is10HzRange = (ActiveTouchButtonFrequencyRange = INDEX_OF_10HZ)

\* a step of a range button leaves Frequency, the waveform and the output
\* switch as they were
RangeStepKeepsTarget ==
    lastEvent'.kind = "range" /\ lastEvent' # lastEvent
        => /\ sFrequencyInfo'.Frequency = sFrequencyInfo.Frequency
           /\ sFrequencyInfo'.Waveform = sFrequencyInfo.Waveform
           /\ sFrequencyInfo'.isOutputEnabled = sFrequencyInfo.isOutputEnabled

\* the divider d is the tick count of the target up to the float rounding
\* (below 2^-22 of it) and, below it, the steps of the prescaler p:
\* (C / f) * (1 - 2^-22) - p < d <= (C / f) * (1 + 2^-22)
DividerNearTicks(info, d, p) ==
    /\ ~LessThanTimes(BigMul(ClockPerFactor(info), BigAdd(BigShl(<<1>>, 22), <<1>>)),
                      BigShl(d, 22), info.Frequency)
    /\ LessThanTimes(BigMul(ClockPerFactor(info), BigSub(BigShl(<<1>>, 22), <<1>>)),
                     BigShl(BigAdd(d, p), 22), info.Frequency)

\* C11 as stated: after a range button the index is that of the button and
\* the divider is floor((36000000000 / 1000^index) / Frequency), for every
\* positive finite Frequency.
C11_RangeExactDivider ==
    (RangeChanged /\ ValidTarget(sFrequencyInfo)) =>
        /\ RangeSet
        /\ sFrequencyInfo.DividerInt = ExactTicks(sFrequencyInfo)

\* C11: a range button (other than the active one) sets the index to that of
\* the button (mHz 0, Hz 1, 10Hz 1, kHz 2, MHz 3) and the factor to
\* 1000^index, leaves Frequency as it was, and programs the timer for the
\* unchanged Frequency: for a positive finite Frequency whose tick count fits
\* 32 bits the divider is reload * prescaler, it is 2 where the tick count is
\* below 2, and otherwise it is the tick count up to the float rounding
\* (2^-22 of it) and less than one prescaler step below.
C11_RangeReinterprets ==
    /\ [](RangeChanged =>
            /\ RangeSet
            /\ driverCalls = <<"SetReloadValue">>
            /\ (ValidTarget(sFrequencyInfo)
                  /\ TicksBelow(sFrequencyInfo, BigShl(<<1>>, 32))) =>
                   /\ sFrequencyInfo.DividerInt
                          = BigMul(timer.reload, timer.prescaler)
                   /\ IF TicksBelow(sFrequencyInfo, <<2>>)
                      THEN sFrequencyInfo.DividerInt = <<2>>
                      ELSE DividerNearTicks(sFrequencyInfo,
                                            sFrequencyInfo.DividerInt,
                                            timer.prescaler))
    /\ [][RangeStepKeepsTarget]_vars

\* the kHz button with the boot target: 200 Hz became 200 kHz, 180 ticks
C11_Witness ==
    /\ RangeChanged
    /\ ActiveTouchButtonFrequencyRange = 3
    /\ sFrequencyInfo.FrequencyFactorIndex = 2
    /\ sFrequencyInfo.Frequency = FromInt(200)
    /\ sFrequencyInfo.DividerInt = BigOf(180)

\* C12: the timer runs, and Synth_Timer_Start is called, only while
\* isOutputEnabled is true.
C12_StartOnlyEnabled ==
    (timer.running \/ \E i \in DOMAIN driverCalls : driverCalls[i] = "Start")
        => sFrequencyInfo.isOutputEnabled

====
